---- MODULE Spec2Model ----
(***************************************************************************)
(* The validation outcome model of cedar-policy-validator                  *)
(* (src/cedar-policy-validator/src/validation_result.rs): SourceLocation,  *)
(* ValidationErrorKind / ValidationWarningKind with their Display          *)
(* rendering, ValidationError / ValidationWarning, and the                 *)
(* ValidationResult aggregate.                                             *)
(*                                                                         *)
(* Two specifications share the module:                                    *)
(*   Spec      the life of one ValidationResult: checkers produce          *)
(*             diagnostics, new() snapshots them, the accessors read them, *)
(*             into_errors_and_warnings() consumes the result;             *)
(*   DiagSpec  the life of one diagnostic: a kind factory, with_policy_id, *)
(*             the accessors, the consuming decomposition and rendering.   *)
(*                                                                         *)
(* A Rust String is a TLA+ string and format!/write! is concatenation.     *)
(* A TLA+ string literal cannot hold the backquote character, so the       *)
(* backquote of the messages is written Tick throughout.                   *)
(***************************************************************************)
EXTENDS Naturals, Sequences, FiniteSets, TLC

VARIABLES
    \* ---- Spec: one validation run ----
    phase,              \* "collecting" | "built" | "consumed"
    errorsProducer,     \* the errors the checkers have produced so far, in traversal order
    warningsProducer,   \* the warnings the checkers have produced so far
    givenErrors,        \* the error sequence handed to the last ValidationResult::new
    givenWarnings,      \* the warning sequence handed to the last ValidationResult::new
    result,             \* the ValidationResult, or Moved
    passedRet,          \* what validation_passed() last returned, or NotCalled
    errorsRet,          \* what validation_errors() last yielded, or NotCalled
    warningsRet,        \* what validation_warnings() last yielded, or NotCalled
    decomposed,         \* what into_errors_and_warnings() yielded, or NotCalled
    rounds,             \* how many times a result was rebuilt from a decomposition
    \* ---- DiagSpec: one diagnostic ----
    kind,               \* the kind value a factory has built and nobody consumed yet, or Moved
    given,              \* the arguments of the last with_policy_id
    diag,               \* the ValidationError / ValidationWarning, or Moved
    out                 \* the last call on the diagnostic and what it returned

resultVars == <<phase, errorsProducer, warningsProducer, givenErrors, givenWarnings,
                result, passedRet, errorsRet, warningsRet, decomposed, rounds>>
diagVars == <<kind, given, diag, out>>
vars == <<resultVars, diagVars>>

\* ------------------------------------------------------------------ bounds
MaxErrors == 2
MaxWarnings == 2
MaxRounds == 1

\* ------------------------------------------------------------ value shapes
Tick == "'"
None == [some |-> FALSE]
Some(v) == [some |-> TRUE, val |-> v]
Moved == [moved |-> TRUE]
NotCalled == [called |-> FALSE]
Returned(v) == [called |-> TRUE, ret |-> v]

\* cedar_policy_core::ast::PolicyID and its Display
PolicyIDs == {[id |-> "policy0"], [id |-> "policy1"]}
PolicyID_Display(p) == p.id

\* cedar_policy_core::parser::SourceInfo, a span into the policy source
SourceInfos == {[range_start |-> 0, range_end |-> 7]}
OptionSourceInfos == {None} \cup {Some(s) : s \in SourceInfos}

\* crate::TypeErrorKind / crate::TypeWarningKind and their Display
TypeErrorKinds == {[type_error |-> "unexpected type"], [type_error |-> "attribute not found"]}
TypeErrorKind_Display(k) == k.type_error
TypeWarningKinds == {[type_warning |-> "impossible policy"]}
TypeWarningKind_Display(k) == k.type_warning

\* write!(f, "lit0{}lit1{}lit2", a1, a2): the literal pieces and the rendered
\* arguments, interleaved
RECURSIVE Format(_, _)
Format(lits, args) ==
    IF args = <<>> THEN Head(lits)
    ELSE Head(lits) \o Head(args) \o Format(Tail(lits), Tail(args))

\* --------------------------------------------------------- SourceLocation
SourceLocation_new(policy_id, source_info) ==
    [policy_id |-> policy_id, source_info |-> source_info]
SourceLocation_policy_id(self) == self.policy_id
SourceLocation_source_info(self) == self.source_info

\* ---------------------------------------------------- ValidationErrorKind
unrecognized_entity_type(actual_entity_type, suggested_entity_type) ==
    [variant |-> "UnrecognizedEntityType",
     v0 |-> [actual_entity_type |-> actual_entity_type,
             suggested_entity_type |-> suggested_entity_type]]
unrecognized_action_id(actual_action_id, suggested_action_id) ==
    [variant |-> "UnrecognizedActionId",
     v0 |-> [actual_action_id |-> actual_action_id,
             suggested_action_id |-> suggested_action_id]]
invalid_action_application(would_in_fix_principal, would_in_fix_resource) ==
    [variant |-> "InvalidActionApplication",
     v0 |-> [would_in_fix_principal |-> would_in_fix_principal,
             would_in_fix_resource |-> would_in_fix_resource]]
type_error(type_error_kind) ==
    [variant |-> "TypeError", v0 |-> type_error_kind]
unspecified_entity(entity_id) ==
    [variant |-> "UnspecifiedEntity", v0 |-> [entity_id |-> entity_id]]

UnrecognizedEntityType_Display(v0) ==
    Format(<<"unrecognized entity type " \o Tick, Tick, "">>,
           <<v0.actual_entity_type,
             IF v0.suggested_entity_type.some
             THEN Format(<<", did you mean " \o Tick, Tick \o "?">>,
                         <<v0.suggested_entity_type.val>>)
             ELSE "">>)
\* the action-id message with the suggestion clause dropped for an empty suggestion
UnrecognizedActionId_Display_SkipsEmptySuggestion(v0) ==
    Format(<<"unrecognized action " \o Tick, Tick, "">>,
           <<v0.actual_action_id,
             IF v0.suggested_action_id.some /\ v0.suggested_action_id.val # ""
             THEN Format(<<", did you mean " \o Tick, Tick \o "?">>,
                         <<v0.suggested_action_id.val>>)
             ELSE "">>)
UnrecognizedActionId_Display(v0) ==
    Format(<<"unrecognized action " \o Tick, Tick, "">>,
           <<v0.actual_action_id,
             IF v0.suggested_action_id.some
             THEN Format(<<", did you mean " \o Tick, Tick \o "?">>,
                         <<v0.suggested_action_id.val>>)
             ELSE "">>)
PrincipalHint ==
    ". Note: Try replacing " \o Tick \o "==" \o Tick \o " with " \o Tick \o "in"
        \o Tick \o " in the principal clause"
ResourceHint ==
    ". Note: Try replacing " \o Tick \o "==" \o Tick \o " with " \o Tick \o "in"
        \o Tick \o " in the resource clause"
\* the two hints with the resource hint written first
InvalidActionApplication_Display_ResourceFirst(v0) ==
    Format(<<"unable to find an applicable action given the policy head constraints",
             "", "">>,
           <<IF v0.would_in_fix_resource THEN ResourceHint ELSE "",
             IF v0.would_in_fix_principal THEN PrincipalHint ELSE "">>)
InvalidActionApplication_Display(v0) ==
    Format(<<"unable to find an applicable action given the policy head constraints",
             "", "">>,
           <<IF v0.would_in_fix_principal THEN PrincipalHint ELSE "",
             IF v0.would_in_fix_resource THEN ResourceHint ELSE "">>)
TypeError_Display(v0) == TypeErrorKind_Display(v0)
\* the message reduced to the entity id
UnspecifiedEntity_Display_IdOnly(v0) == Format(<<"", "">>, <<v0.entity_id>>)
UnspecifiedEntity_Display(v0) ==
    Format(<<"unspecified entity with eid " \o Tick,
             Tick \o ". Unspecified entities cannot be used in policies">>,
           <<v0.entity_id>>)
ValidationErrorKind_Display(self) ==
    CASE self.variant = "UnrecognizedEntityType" -> UnrecognizedEntityType_Display(self.v0)
      [] self.variant = "UnrecognizedActionId" -> UnrecognizedActionId_Display(self.v0)
      [] self.variant = "InvalidActionApplication" -> InvalidActionApplication_Display(self.v0)
      [] self.variant = "TypeError" -> TypeError_Display(self.v0)
      [] self.variant = "UnspecifiedEntity" -> UnspecifiedEntity_Display(self.v0)

\* -------------------------------------------------- ValidationWarningKind
MixedScriptString(s) == [variant |-> "MixedScriptString", v0 |-> s]
BidiCharsInString(s) == [variant |-> "BidiCharsInString", v0 |-> s]
BidiCharsInIdentifier(s) == [variant |-> "BidiCharsInIdentifier", v0 |-> s]
MixedScriptIdentifier(s) == [variant |-> "MixedScriptIdentifier", v0 |-> s]
ConfusableIdentifier(s) == [variant |-> "ConfusableIdentifier", v0 |-> s]
TypeWarning(k) == [variant |-> "TypeWarning", v0 |-> k]

ValidationWarningKind_Display(self) ==
    CASE self.variant = "MixedScriptString" ->
            Format(<<"string " \o Tick \o "\"", "\"" \o Tick \o " contains mixed scripts">>,
                   <<self.v0>>)
      [] self.variant = "BidiCharsInString" ->
            Format(<<"string " \o Tick \o "\"",
                     "\"" \o Tick \o " contains BIDI control characters">>,
                   <<self.v0>>)
      [] self.variant = "BidiCharsInIdentifier" ->
            Format(<<"identifier " \o Tick, Tick \o " contains BIDI control characters">>,
                   <<self.v0>>)
      [] self.variant = "MixedScriptIdentifier" ->
            Format(<<"identifier " \o Tick, Tick \o " contains mixed scripts">>,
                   <<self.v0>>)
      [] self.variant = "ConfusableIdentifier" ->
            Format(<<"identifier " \o Tick,
                     Tick \o " contains characters that fall outside of the General Security Profile for Identifiers">>,
                   <<self.v0>>)
      [] self.variant = "TypeWarning" -> TypeWarningKind_Display(self.v0)

\* -------------------------------------- ValidationError / ValidationWarning
ValidationError_with_policy_id(id, source_info, error_kind) ==
    [error_kind |-> error_kind, location |-> SourceLocation_new(id, source_info)]
ValidationError_into_location_and_error_kind(self) == <<self.location, self.error_kind>>
ValidationError_error_kind(self) == self.error_kind
ValidationError_location(self) == self.location

ValidationWarning_with_policy_id(id, source_info, wkind) ==
    [location |-> SourceLocation_new(id, source_info), kind |-> wkind]
ValidationWarning_location(self) == self.location
ValidationWarning_kind(self) == self.kind
\* the pair in the order the method's name suggests
ValidationWarning_to_kind_and_location_KindFirst(self) == <<self.kind, self.location>>
ValidationWarning_to_kind_and_location(self) == <<self.location, self.kind>>
\* the sentence without the policy id's closing quote and colon
ValidationWarning_Display_NoSeparator(self) ==
    Format(<<"validation warning on policy " \o Tick, "", "">>,
           <<PolicyID_Display(SourceLocation_policy_id(self.location)),
             ValidationWarningKind_Display(self.kind)>>)
ValidationWarning_Display(self) ==
    Format(<<"validation warning on policy " \o Tick, Tick \o ": ", "">>,
           <<PolicyID_Display(SourceLocation_policy_id(self.location)),
             ValidationWarningKind_Display(self.kind)>>)

IsError(d) == "error_kind" \in DOMAIN d
IsWarning(d) == "kind" \in DOMAIN d

\* -------------------------------------------------------- ValidationResult
\* Iterator::collect::<Vec<_>>(): every item the producer yields is pushed, in
\* the order it is yielded
RECURSIVE CollectInto(_, _)
CollectInto(vec, iter) ==
    IF iter = <<>> THEN vec ELSE CollectInto(Append(vec, Head(iter)), Tail(iter))
Collect(iter) == CollectInto(<<>>, iter)
\* slice::iter() / Vec::into_iter(): the elements from index 0 upward
Iter(vec) == [i \in 1..Len(vec) |-> vec[i]]
IntoIter(vec) == [i \in 1..Len(vec) |-> vec[i]]
Count(iter) == Len(iter)
IsEmpty(vec) == Len(vec) = 0

\* new() that deduplicates adjacent equal diagnostics while collecting
RECURSIVE Dedup(_)
Dedup(vec) ==
    IF Len(vec) < 2 THEN vec
    ELSE IF vec[1] = vec[2] THEN Dedup(Tail(vec))
    ELSE <<vec[1]>> \o Dedup(Tail(vec))
ValidationResult_new_Dedup(errors, warnings) ==
    [validation_errors |-> Dedup(Collect(errors)),
     validation_warnings |-> Dedup(Collect(warnings))]
ValidationResult_new(errors, warnings) ==
    [validation_errors |-> Collect(errors),
     validation_warnings |-> Collect(warnings)]
\* pass decided by the warnings
ValidationResult_validation_passed_Warnings(self) == IsEmpty(self.validation_warnings)
\* pass requiring no diagnostics at all
ValidationResult_validation_passed_Strict(self) ==
    IsEmpty(self.validation_errors) /\ IsEmpty(self.validation_warnings)
ValidationResult_validation_passed(self) == IsEmpty(self.validation_errors)
ValidationResult_validation_errors(self) == Iter(self.validation_errors)
ValidationResult_validation_warnings(self) == Iter(self.validation_warnings)
\* decomposition that pops from the back of each vector
Reverse(vec) == [i \in 1..Len(vec) |-> vec[Len(vec) + 1 - i]]
ValidationResult_into_errors_and_warnings_Popping(self) ==
    <<Reverse(self.validation_errors), Reverse(self.validation_warnings)>>
ValidationResult_into_errors_and_warnings(self) ==
    <<IntoIter(self.validation_errors), IntoIter(self.validation_warnings)>>
\* an accessor that drains the errors it hands out
DrainingBorrow(self) == [self EXCEPT !.validation_errors = <<>>]
\* the receiver after a call through &self: a shared borrow writes nothing
SharedBorrow(self) == self

\* =================================================================== Spec
\* what the checkers of one run may report: (policy id, span, kind)
P0 == [id |-> "policy0"]
P1 == [id |-> "policy1"]
Span0 == Some([range_start |-> 0, range_end |-> 7])
RunErrors ==
    {ValidationError_with_policy_id(P0, Span0, unrecognized_entity_type("User", Some("Useer"))),
     ValidationError_with_policy_id(P0, None, invalid_action_application(TRUE, FALSE)),
     ValidationError_with_policy_id(P1, None, invalid_action_application(TRUE, FALSE))}
RunWarnings ==
    {ValidationWarning_with_policy_id(P0, Span0, MixedScriptString("paypal")),
     ValidationWarning_with_policy_id(P1, Span0, MixedScriptString("paypal")),
     ValidationWarning_with_policy_id(P1, None, BidiCharsInIdentifier("admin"))}

ResultInit ==
    /\ phase = "collecting"
    /\ errorsProducer = <<>>
    /\ warningsProducer = <<>>
    /\ givenErrors = <<>>
    /\ givenWarnings = <<>>
    /\ result = Moved
    /\ passedRet = NotCalled
    /\ errorsRet = NotCalled
    /\ warningsRet = NotCalled
    /\ decomposed = NotCalled
    /\ rounds = 0

DiagInit ==
    /\ kind = Moved
    /\ given = Moved
    /\ diag = Moved
    /\ out = [op |-> "none"]

Init == ResultInit /\ DiagInit

\* a checker reports one more error
ProduceError(e) ==
    /\ phase = "collecting"
    /\ Len(errorsProducer) < MaxErrors
    /\ errorsProducer' = Append(errorsProducer, e)
    /\ UNCHANGED <<phase, warningsProducer, givenErrors, givenWarnings, result,
                   passedRet, errorsRet, warningsRet, decomposed, rounds>>
    /\ UNCHANGED diagVars

\* a checker reports one more warning
ProduceWarning(w) ==
    /\ phase = "collecting"
    /\ Len(warningsProducer) < MaxWarnings
    /\ warningsProducer' = Append(warningsProducer, w)
    /\ UNCHANGED <<phase, errorsProducer, givenErrors, givenWarnings, result,
                   passedRet, errorsRet, warningsRet, decomposed, rounds>>
    /\ UNCHANGED diagVars

\* the driver calls ValidationResult::new(errors, warnings); both producers
\* are moved into the call
New ==
    /\ phase = "collecting"
    /\ result' = ValidationResult_new(errorsProducer, warningsProducer)
    /\ givenErrors' = errorsProducer
    /\ givenWarnings' = warningsProducer
    /\ errorsProducer' = <<>>
    /\ warningsProducer' = <<>>
    /\ phase' = "built"
    /\ UNCHANGED <<passedRet, errorsRet, warningsRet, decomposed, rounds>>
    /\ UNCHANGED diagVars

ValidationPassed ==
    /\ phase = "built"
    /\ passedRet' = Returned(ValidationResult_validation_passed(result))
    /\ result' = SharedBorrow(result)
    /\ UNCHANGED <<phase, errorsProducer, warningsProducer, givenErrors, givenWarnings,
                   errorsRet, warningsRet, decomposed, rounds>>
    /\ UNCHANGED diagVars

ValidationErrors ==
    /\ phase = "built"
    /\ errorsRet' = Returned(ValidationResult_validation_errors(result))
    /\ result' = SharedBorrow(result)
    /\ UNCHANGED <<phase, errorsProducer, warningsProducer, givenErrors, givenWarnings,
                   passedRet, warningsRet, decomposed, rounds>>
    /\ UNCHANGED diagVars

ValidationWarnings ==
    /\ phase = "built"
    /\ warningsRet' = Returned(ValidationResult_validation_warnings(result))
    /\ result' = SharedBorrow(result)
    /\ UNCHANGED <<phase, errorsProducer, warningsProducer, givenErrors, givenWarnings,
                   passedRet, errorsRet, decomposed, rounds>>
    /\ UNCHANGED diagVars

\* into_errors_and_warnings(self) consumes the result
IntoErrorsAndWarnings ==
    /\ phase = "built"
    /\ decomposed' = Returned(ValidationResult_into_errors_and_warnings(result))
    /\ result' = Moved
    /\ phase' = "consumed"
    /\ UNCHANGED <<errorsProducer, warningsProducer, givenErrors, givenWarnings,
                   passedRet, errorsRet, warningsRet, rounds>>
    /\ UNCHANGED diagVars

\* the caller builds a second result from the two decomposed sequences
Rebuild ==
    /\ phase = "consumed"
    /\ rounds < MaxRounds
    /\ result' = ValidationResult_new(decomposed.ret[1], decomposed.ret[2])
    /\ givenErrors' = decomposed.ret[1]
    /\ givenWarnings' = decomposed.ret[2]
    /\ decomposed' = NotCalled
    /\ passedRet' = NotCalled
    /\ errorsRet' = NotCalled
    /\ warningsRet' = NotCalled
    /\ rounds' = rounds + 1
    /\ phase' = "built"
    /\ UNCHANGED <<errorsProducer, warningsProducer>>
    /\ UNCHANGED diagVars

Next ==
    \/ \E e \in RunErrors : ProduceError(e)
    \/ \E w \in RunWarnings : ProduceWarning(w)
    \/ New
    \/ ValidationPassed
    \/ ValidationErrors
    \/ ValidationWarnings
    \/ IntoErrorsAndWarnings
    \/ Rebuild

Spec == Init /\ [][Next]_vars

\* =============================================================== DiagSpec
\* what the resolvers, the applicability search, the type checker and the
\* confusable scanner may supply
ActualNames == {"", "User"}
SuggestedNames == {"", "Useer"}
OptionSuggestedNames == {None} \cup {Some(n) : n \in SuggestedNames}
EntityIds == {"", "eid0"}
ScannedTexts == {"", "paypal"}
WarningVariants ==
    {"MixedScriptString", "BidiCharsInString", "BidiCharsInIdentifier",
     "MixedScriptIdentifier", "ConfusableIdentifier"}

ScanWarningKind(variant, s) ==
    CASE variant = "MixedScriptString" -> MixedScriptString(s)
      [] variant = "BidiCharsInString" -> BidiCharsInString(s)
      [] variant = "BidiCharsInIdentifier" -> BidiCharsInIdentifier(s)
      [] variant = "MixedScriptIdentifier" -> MixedScriptIdentifier(s)
      [] variant = "ConfusableIdentifier" -> ConfusableIdentifier(s)

Idle == kind = Moved /\ diag = Moved
Location(d) == IF IsError(d) THEN ValidationError_location(d) ELSE ValidationWarning_location(d)

MakeUnrecognizedEntityType(actual, suggested) ==
    /\ Idle
    /\ kind' = unrecognized_entity_type(actual, suggested)
    /\ UNCHANGED <<given, diag, out, resultVars>>

MakeUnrecognizedActionId(actual, suggested) ==
    /\ Idle
    /\ kind' = unrecognized_action_id(actual, suggested)
    /\ UNCHANGED <<given, diag, out, resultVars>>

MakeInvalidActionApplication(principal, resource) ==
    /\ Idle
    /\ kind' = invalid_action_application(principal, resource)
    /\ UNCHANGED <<given, diag, out, resultVars>>

MakeTypeError(k) ==
    /\ Idle
    /\ kind' = type_error(k)
    /\ UNCHANGED <<given, diag, out, resultVars>>

MakeUnspecifiedEntity(entity_id) ==
    /\ Idle
    /\ kind' = unspecified_entity(entity_id)
    /\ UNCHANGED <<given, diag, out, resultVars>>

\* the five Unicode-related warning variants are built by naming the variant
MakeScanWarning(variant, text) ==
    /\ Idle
    /\ kind' = ScanWarningKind(variant, text)
    /\ UNCHANGED <<given, diag, out, resultVars>>

MakeTypeWarning(k) ==
    /\ Idle
    /\ kind' = TypeWarning(k)
    /\ UNCHANGED <<given, diag, out, resultVars>>

IsWarningKind(k) == k.variant \in WarningVariants \cup {"TypeWarning"}

\* ValidationError::with_policy_id / ValidationWarning::with_policy_id: the kind
\* is moved into the diagnostic
WithPolicyId(id, source_info) ==
    /\ kind # Moved
    /\ diag' = IF IsWarningKind(kind)
               THEN ValidationWarning_with_policy_id(id, source_info, kind)
               ELSE ValidationError_with_policy_id(id, source_info, kind)
    /\ given' = [id |-> id, source_info |-> source_info, kind |-> kind]
    /\ kind' = Moved
    /\ out' = [op |-> "none"]
    /\ UNCHANGED resultVars

\* location().policy_id()
LocationPolicyId ==
    /\ diag # Moved
    /\ out' = [op |-> "policy_id", ret |-> SourceLocation_policy_id(Location(diag))]
    /\ UNCHANGED <<kind, given, diag, resultVars>>

\* location().source_info()
LocationSourceInfo ==
    /\ diag # Moved
    /\ out' = [op |-> "source_info", ret |-> SourceLocation_source_info(Location(diag))]
    /\ UNCHANGED <<kind, given, diag, resultVars>>

\* error_kind() / kind()
Kind ==
    /\ diag # Moved
    /\ out' = [op |-> "kind",
               ret |-> IF IsError(diag) THEN ValidationError_error_kind(diag)
                       ELSE ValidationWarning_kind(diag)]
    /\ UNCHANGED <<kind, given, diag, resultVars>>

\* error_kind().to_string()
ErrorKindToString ==
    /\ diag # Moved
    /\ IsError(diag)
    /\ out' = [op |-> "error_kind.to_string",
               ret |-> ValidationErrorKind_Display(ValidationError_error_kind(diag))]
    /\ UNCHANGED <<kind, given, diag, resultVars>>

\* to_string() of a ValidationWarning
WarningToString ==
    /\ diag # Moved
    /\ IsWarning(diag)
    /\ out' = [op |-> "to_string", ret |-> ValidationWarning_Display(diag)]
    /\ UNCHANGED <<kind, given, diag, resultVars>>

\* into_location_and_error_kind(self) / to_kind_and_location(self) consume the
\* diagnostic
Decompose ==
    /\ diag # Moved
    /\ out' = [op |-> "decompose",
               ret |-> IF IsError(diag)
                       THEN ValidationError_into_location_and_error_kind(diag)
                       ELSE ValidationWarning_to_kind_and_location(diag)]
    /\ diag' = Moved
    /\ UNCHANGED <<kind, given, resultVars>>

DiagNext ==
    \/ \E a \in ActualNames, s \in OptionSuggestedNames : MakeUnrecognizedEntityType(a, s)
    \/ \E a \in ActualNames, s \in OptionSuggestedNames : MakeUnrecognizedActionId(a, s)
    \/ \E p \in BOOLEAN, r \in BOOLEAN : MakeInvalidActionApplication(p, r)
    \/ \E k \in TypeErrorKinds : MakeTypeError(k)
    \/ \E e \in EntityIds : MakeUnspecifiedEntity(e)
    \/ \E v \in WarningVariants, t \in ScannedTexts : MakeScanWarning(v, t)
    \/ \E k \in TypeWarningKinds : MakeTypeWarning(k)
    \/ \E id \in PolicyIDs, si \in OptionSourceInfos : WithPolicyId(id, si)
    \/ LocationPolicyId
    \/ LocationSourceInfo
    \/ Kind
    \/ ErrorKindToString
    \/ WarningToString
    \/ Decompose

DiagSpec == Init /\ [][DiagNext]_vars

\* ================================================================ claims
SeqsUpTo(S, n) == UNION {[1..k -> S] : k \in 0..n}

\* C1: whenever validation_passed() and validation_errors() have both been
\* called on a result, validation_passed() returned true exactly when
\* validation_errors() yielded zero elements, which is exactly when new() was
\* given no error.
C1_PassedIffNoErrors ==
    /\ (passedRet.called /\ errorsRet.called) =>
           (passedRet.ret <=> Count(errorsRet.ret) = 0)
    /\ passedRet.called => (passedRet.ret <=> Len(givenErrors) = 0)
C1_Witness ==
    /\ passedRet.called /\ errorsRet.called
    /\ ~passedRet.ret
    /\ Count(errorsRet.ret) = 2
    /\ Len(givenWarnings) = 0

\* C2: the answer validation_passed() gave is the answer it gives for the same
\* errors with any other warning sequence, and with zero errors the answer is
\* true however many warnings there are.
C2_WarningsNeverInfluencePass ==
    passedRet.called =>
        /\ \A w2 \in SeqsUpTo(RunWarnings, MaxWarnings) :
               ValidationResult_validation_passed(ValidationResult_new(givenErrors, w2))
                   = passedRet.ret
        /\ (Len(givenErrors) = 0 => passedRet.ret)
C2_Witness ==
    /\ passedRet.called
    /\ passedRet.ret
    /\ Len(givenErrors) = 0
    /\ Len(givenWarnings) = 2

\* C3: the pair into_errors_and_warnings() yields equals, element for element
\* and in order, what validation_errors() and validation_warnings() yielded
\* and what new() was given; a result rebuilt from a decomposition (rounds > 0,
\* where what new() was given is the earlier decomposition) decomposes into
\* the identical pair.
C3_DecompositionLossless ==
    decomposed.called =>
        /\ decomposed.ret = <<givenErrors, givenWarnings>>
        /\ errorsRet.called =>
               /\ Len(decomposed.ret[1]) = Len(errorsRet.ret)
               /\ decomposed.ret[1] = errorsRet.ret
        /\ warningsRet.called =>
               /\ Len(decomposed.ret[2]) = Len(warningsRet.ret)
               /\ decomposed.ret[2] = warningsRet.ret
C3_Witness ==
    /\ decomposed.called
    /\ rounds > 0
    /\ errorsRet.called /\ warningsRet.called
    /\ Len(decomposed.ret[1]) = 2 /\ decomposed.ret[1][1] # decomposed.ret[1][2]
    /\ Len(decomposed.ret[2]) = 2 /\ decomposed.ret[2][1] # decomposed.ret[2][2]

\* C4: validation_errors() yields exactly the errors new() was given, in that
\* order, and validation_warnings() exactly the warnings, in that order:
\* nothing dropped, duplicated, reordered or moved to the other sequence.
C4_InsertionOrderPreserved ==
    /\ errorsRet.called => errorsRet.ret = givenErrors
    /\ warningsRet.called => warningsRet.ret = givenWarnings
    /\ phase = "built" =>
           /\ result.validation_errors = givenErrors
           /\ result.validation_warnings = givenWarnings
C4_Witness ==
    /\ phase = "built"
    /\ errorsRet.called /\ warningsRet.called
    /\ Len(errorsRet.ret) = 2 /\ errorsRet.ret[1] = errorsRet.ret[2]
    /\ Len(warningsRet.ret) = 2 /\ warningsRet.ret[1] # warningsRet.ret[2]

\* C5: an InvalidActionApplication renders as the base message alone for
\* {false,false}, with only the principal hint for {true,false}, with only the
\* resource hint for {false,true}, and with the principal hint followed by the
\* resource hint for {true,true}.
BaseMessage == "unable to find an applicable action given the policy head constraints"
C5_InvalidActionApplicationRendering ==
    (out.op = "error_kind.to_string" /\ given.kind.variant = "InvalidActionApplication") =>
        LET p == given.kind.v0.would_in_fix_principal
            r == given.kind.v0.would_in_fix_resource
        IN  /\ (~p /\ ~r) => out.ret = BaseMessage
            /\ (p /\ ~r) => out.ret = BaseMessage \o PrincipalHint
            /\ (~p /\ r) => out.ret = BaseMessage \o ResourceHint
            /\ (p /\ r) => out.ret = BaseMessage \o PrincipalHint \o ResourceHint
C5_Witness ==
    /\ out.op = "error_kind.to_string"
    /\ given.kind.variant = "InvalidActionApplication"
    /\ given.kind.v0.would_in_fix_principal
    /\ given.kind.v0.would_in_fix_resource

\* C6: an UnrecognizedEntityType (UnrecognizedActionId) renders as the prefix
\* naming the actual name between backquotes, followed by the did-you-mean
\* clause exactly when the suggestion is Some; for the same actual name, the
\* rendering with any suggestion is the rendering with none, plus that clause.
DidYouMean(s) == ", did you mean " \o Tick \o s \o Tick \o "?"
C6_SuggestionClause ==
    /\ (out.op = "error_kind.to_string" /\ given.kind.variant = "UnrecognizedEntityType") =>
           LET actual == given.kind.v0.actual_entity_type
               suggested == given.kind.v0.suggested_entity_type
               prefix == "unrecognized entity type " \o Tick \o actual \o Tick
           IN  /\ out.ret = IF suggested.some THEN prefix \o DidYouMean(suggested.val)
                            ELSE prefix
               /\ \A s \in SuggestedNames :
                      ValidationErrorKind_Display(unrecognized_entity_type(actual, Some(s)))
                          = ValidationErrorKind_Display(unrecognized_entity_type(actual, None))
                                \o DidYouMean(s)
    /\ (out.op = "error_kind.to_string" /\ given.kind.variant = "UnrecognizedActionId") =>
           LET actual == given.kind.v0.actual_action_id
               suggested == given.kind.v0.suggested_action_id
               prefix == "unrecognized action " \o Tick \o actual \o Tick
           IN  /\ out.ret = IF suggested.some THEN prefix \o DidYouMean(suggested.val)
                            ELSE prefix
               /\ \A s \in SuggestedNames :
                      ValidationErrorKind_Display(unrecognized_action_id(actual, Some(s)))
                          = ValidationErrorKind_Display(unrecognized_action_id(actual, None))
                                \o DidYouMean(s)
C6_Witness ==
    /\ out.op = "error_kind.to_string"
    /\ given.kind.variant = "UnrecognizedActionId"
    /\ given.kind.v0.actual_action_id = "User"
    /\ given.kind.v0.suggested_action_id = Some("")

\* C7: a warning built by with_policy_id(id, span, kind) renders as
\* "validation warning on policy <id between backquotes>: <message of kind>", and the same
\* id and kind with any other span render the same text.
C7_WarningSentence ==
    out.op = "to_string" =>
        /\ out.ret = "validation warning on policy " \o Tick \o PolicyID_Display(given.id)
                         \o Tick \o ": " \o ValidationWarningKind_Display(given.kind)
        /\ \A si \in OptionSourceInfos :
               ValidationWarning_Display(
                   ValidationWarning_with_policy_id(given.id, si, given.kind)) = out.ret
C7_Witness ==
    /\ out.op = "to_string"
    /\ given.source_info # None
    /\ given.id = P1
    /\ given.kind = MixedScriptString("paypal")

C10_ConstructionLossless ==
    /\ out.op = "policy_id" => out.ret = given.id
    /\ out.op = "source_info" => out.ret = given.source_info
    /\ out.op = "kind" => out.ret = given.kind
    /\ out.op = "decompose" =>
           /\ diag = Moved
           /\ out.ret = <<[policy_id |-> given.id, source_info |-> given.source_info],
                          given.kind>>
C10_Witness ==
    /\ out.op = "decompose"
    /\ IsWarningKind(given.kind)
    /\ given.source_info = None

\* C9: while a result is built, no call changes it: the stored sequences stay
\* those given to new(), and validation_passed(), validation_errors() and
\* validation_warnings() return what they returned before.
C9_NeverMutated ==
    [][(phase = "built" /\ phase' = "built") =>
           /\ result' = result
           /\ result.validation_errors = givenErrors
           /\ result.validation_warnings = givenWarnings
           /\ result'.validation_errors = givenErrors'
           /\ result'.validation_warnings = givenWarnings'
           /\ passedRet.called => passedRet' = passedRet
           /\ errorsRet.called => errorsRet' = errorsRet
           /\ warningsRet.called => warningsRet' = warningsRet]_vars
C9_Witness ==
    /\ phase = "built"
    /\ passedRet.called /\ errorsRet.called /\ warningsRet.called
    /\ Len(givenErrors) = 2
    /\ Len(givenWarnings) = 1
====
